---------------------------- MODULE Spec2Model ----------------------------
(***************************************************************************)
(* ECG-to-Music: the signal-to-control pipeline of the bridge scripts.     *)
(*                                                                         *)
(*   live_bridges/bridge_live_test3.py   fixed threshold, moving_median    *)
(*   live_bridges/bridge_live_test2.py   adaptive threshold, medfilt       *)
(*   live_bridges/bridge_live_test.py    the same loop on a serial port     *)
(*   prerecorded_bridges/bridge_prerecorded_modulation.py   CC113 glide    *)
(*                                                                         *)
(* Numbers.  Peak positions are sample indices, RR intervals are counted   *)
(* in samples, and a BPM value is the exact rational 60*fs/rr, kept as a   *)
(* normalised pair <<numerator, denominator>>.  The scripts compute in     *)
(* IEEE doubles; the model computes the same expressions exactly, so it    *)
(* differs from the scripts only where a double rounding error would move  *)
(* a value across a comparison or across a .5 rounding tie.  The doubles'  *)
(* special values are kept: x/0 is Inf, 0/0 is NaN, and converting NaN to  *)
(* an integer raises ValueError.                                           *)
(***************************************************************************)
EXTENDS Integers, Sequences, FiniteSets, TLC

\* Python's None, for a value that is an int (<<n>> when set) or a BPM.
None == <<>>

Some(x) == <<x>>

Val(o) == o[1]

\* What a function that raised leaves in place of its return value.
Raised == <<>>

(***************************************************************************)
(* Exact arithmetic                                                        *)
(***************************************************************************)
Abs(x) == IF x < 0 THEN -x ELSE x

Sign(x) == IF x > 0 THEN 1 ELSE IF x < 0 THEN -1 ELSE 0

Min2(a, b) == IF a <= b THEN a ELSE b

Max2(a, b) == IF a >= b THEN a ELSE b

RECURSIVE GCD(_, _)
GCD(a, b) == IF b = 0 THEN a ELSE GCD(b, a % b)

\* n/d in lowest terms with a positive denominator.  Division by zero on
\* numpy values warns and gives +Inf, -Inf or NaN by the sign of n: these
\* are <<1, 0>>, <<-1, 0>> and <<0, 0>>.
Rat(n, d) ==
    IF d = 0 THEN <<Sign(n), 0>>
    ELSE LET s == IF d < 0 THEN -1 ELSE 1
             g == GCD(Abs(n), Abs(d))
         IN  <<(s * n) \div g, (s * d) \div g>>

\* A double that is a number: neither an infinity nor NaN.
IsFinite(a) == a[2] # 0

RInt(k) == <<k, 1>>

RLt(a, b) == a[1] * b[2] < b[1] * a[2]

RLe(a, b) == a = b \/ RLt(a, b)

RSub(a, b) == Rat(a[1] * b[2] - b[1] * a[2], a[2] * b[2])

RAbs(a) == <<Abs(a[1]), a[2]>>

RMin(a, b) == IF RLt(b, a) THEN b ELSE a

RMax(a, b) == IF RLt(a, b) THEN b ELSE a

\* Python 3 round() and numpy's __round__ on n/d, d > 0: nearest integer,
\* a tie going to the even neighbour.
RoundHalfEven(n, d) ==
    LET q == n \div d
        r == n % d
    IN  IF 2 * r < d THEN q
        ELSE IF 2 * r > d THEN q + 1
        ELSE IF q % 2 = 0 THEN q ELSE q + 1

\* int(x) of a non-negative n/d: truncation.
Trunc(n, d) == n \div d

(***************************************************************************)
(* Program constants                                                       *)
(***************************************************************************)
\* bridge_live_test2.py sets fs = 1000; bridge_live_test3.py reads it from
\* the stream, and the model takes the same rate there.
fs == 1000

min_note == 48

max_note == 84

min_velocity == 50

max_velocity == 70

min_cc113 == 0

max_cc113 == 127

\* buffer_size = fs * 5 (test2) and fs * 10 (test3), in samples.
buffer_size(v) == IF v = "test3" THEN fs * 10 ELSE fs * 5

\* distance_samples = int((60 / 200) * fs): find_peaks keeps peaks at least
\* this many samples apart.
max_bpm_allowed == 200

distance_samples == (60 * fs) \div max_bpm_allowed

\* bpm_change_threshold = 3 (test3) and 1.0 (test2).
bpm_change_threshold(v) == IF v = "test3" THEN RInt(3) ELSE RInt(1)

\* note_glide_speed = 0.2 and, in the prerecorded script, glide_speed = 0.1.
note_glide_speed == <<1, 5>>

glide_speed == <<1, 10>>

\* The sanity band of test2: bpm_value < 30 or bpm_value > 200 is skipped.
band_low == 30

band_high == 200

\* The floor and ceiling of test2's range: max(40, ...) and min(180, ...).
range_floor == 40

range_ceiling == 180

(***************************************************************************)
(* Interval estimator                                                      *)
(***************************************************************************)
\* 60 / rr with rr = samples / fs.
Bpm(rr) == Rat(60 * fs, rr)

Median3(a, b, c) == Max2(Min2(a, b), Min2(Max2(a, b), c))

RMedian3(a, b, c) == RMax(RMin(a, b), RMin(RMax(a, b), c))

\* moving_median(data, window=3): np.pad(data, (1, 1), mode='edge'), then
\* the median of each window of 3.  data is not empty.
moving_median(data) ==
    LET n == Len(data)
        padded == <<data[1]>> \o data \o <<data[n]>>
    IN  SubSeq([i \in 1..n |-> Median3(padded[i], padded[i + 1], padded[i + 2])], 1, n)

\* scipy.signal.medfilt(data, kernel_size=3): the same windows over the
\* data padded with zeros.
medfilt(data) ==
    LET n == Len(data)
        padded == <<0>> \o data \o <<0>>
    IN  SubSeq([i \in 1..n |-> Median3(padded[i], padded[i + 1], padded[i + 2])], 1, n)

SeqMin(s) == CHOOSE x \in {s[i] : i \in 1..Len(s)} :
                 \A j \in 1..Len(s) : RLe(x, s[j])

SeqMax(s) == CHOOSE x \in {s[i] : i \in 1..Len(s)} :
                 \A j \in 1..Len(s) : RLe(s[j], x)

(***************************************************************************)
(* Mapper                                                                  *)
(***************************************************************************)
\* Mutant of Clip: the input is not clipped into the range.
ClipNone(bpm, lo, hi) == bpm

\* np.clip(bpm, lo, hi) = minimum(maximum(bpm, lo), hi).
Clip(bpm, lo, hi) == RMin(RMax(bpm, lo), hi)

\* norm = (bpm - min_bpm) / (max_bpm - min_bpm) on the clipped bpm; numpy
\* scalars divide by zero with a warning, and 0/0 is NaN.
Norm(bpm, lo, hi) ==
    LET x == RSub(Clip(bpm, lo, hi), lo)
        y == RSub(hi, lo)
    IN  Rat(x[1] * y[2], x[2] * y[1])

\* int(round(lo_out + norm * (hi_out - lo_out))); round() of NaN raises
\* ValueError and of an infinity OverflowError.
LinearMap(norm, lo_out, hi_out) ==
    IF ~IsFinite(norm) THEN Raised
    ELSE Some(RoundHalfEven(lo_out * norm[2] + norm[1] * (hi_out - lo_out), norm[2]))

bpm_to_note_quantized(bpm, min_bpm, max_bpm) ==
    LinearMap(Norm(bpm, min_bpm, max_bpm), min_note, max_note)

\* The largest k with k <= span * sqrt(n/d), for n >= 0 and d > 0.
FloorScaledSqrt(span, n, d) ==
    CHOOSE k \in 0..Max2(span, (span * n) \div d + 1) :
        /\ k * k * d <= span * span * n
        /\ (k + 1) * (k + 1) * d > span * span * n

\* int(min_velocity + (max_velocity - min_velocity) * np.sqrt(norm));
\* np.sqrt of a negative number is NaN, and int() of NaN or of an infinity
\* raises.
bpm_to_velocity(bpm, min_bpm, max_bpm) ==
    LET norm == Norm(bpm, min_bpm, max_bpm)
    IN  IF ~IsFinite(norm) \/ norm[1] < 0 THEN Raised
        ELSE Some(min_velocity +
                  FloorScaledSqrt(max_velocity - min_velocity, norm[1], norm[2]))

bpm_to_cc113(bpm, min_bpm, max_bpm) ==
    LinearMap(Norm(bpm, min_bpm, max_bpm), min_cc113, max_cc113)

(***************************************************************************)
(* Glide controller                                                        *)
(***************************************************************************)
\* Mutant of GlideStep: the step is not forced when it rounds to 0.
GlideStepUnforced(note_distance) ==
    RoundHalfEven(note_distance * note_glide_speed[1], note_glide_speed[2])

\* glide_step = int(round(note_distance * note_glide_speed)), and
\* np.sign(note_distance) when that is 0 and note_distance is not.
GlideStep(note_distance) ==
    LET glide_step == RoundHalfEven(note_distance * note_glide_speed[1],
                                    note_glide_speed[2])
    IN  IF glide_step = 0 /\ note_distance # 0
        THEN Sign(note_distance)
        ELSE glide_step

\* Mutant of CCStepSize: the step without its floor of 1.
CCStepSizeNoFloor(target_cc, cc_value) ==
    Trunc(Abs(target_cc - cc_value) * glide_speed[1], glide_speed[2])

\* step = max(1, int(abs(target_cc - cc_value) * glide_speed))
CCStepSize(target_cc, cc_value) ==
    Max2(1, Trunc(Abs(target_cc - cc_value) * glide_speed[1], glide_speed[2]))

\* One turn of the while loop: cc_value moves by step toward target_cc and
\* is clamped at it.
CCStep(target_cc, cc_value) ==
    IF cc_value < target_cc
    THEN Min2(target_cc, cc_value + CCStepSize(target_cc, cc_value))
    ELSE Max2(target_cc, cc_value - CCStepSize(target_cc, cc_value))

(***************************************************************************)
(* Bounds of the model                                                     *)
(***************************************************************************)
\* The most peaks one detection pass (or one recording) holds.
MaxPeaks == 4

\* The glide updates followed beyond the first |distance| + 1.
MaxExtraUpdates == 2

\* The distances, in samples, between two consecutive peaks: 200, 60, 59.4,
\* 57.7 and 28.6 BPM.  None is below distance_samples.
RRChoices == {r \in {300, 1000, 1010, 1040, 2100} : r >= distance_samples}

RECURSIVE Sum(_)
Sum(s) == IF s = <<>> THEN 0 ELSE s[1] + Sum(Tail(s))

\* The RR sequences of n peaks.
RRSeqs(n) ==
    IF n < 2 THEN {<<>>}
    ELSE {SubSeq(f, 1, n - 1) : f \in [1..(n - 1) -> RRChoices]}

(***************************************************************************)
(* State                                                                   *)
(***************************************************************************)
VARIABLES
    variant,        \* what runs: "test3", "test2", "test", "prerecorded", or a part
                    \* of them on its own ("glide", "pure")
    pc,             \* where the script is
    error,          \* the exception that ended the script, or "none"
    current_note,   \* Mapping State
    last_bpm,       \* Mapping State
    n_peaks,        \* len(r_peaks) of the pass under way, None between passes
    rr_intervals,   \* np.diff(peak_times), in samples
    bpm_value,      \* the pass's current BPM estimate, None before it exists
    min_bpm,        \* the range handed to the mappers
    max_bpm,
    target_note,
    velocity,
    note_to_play,
    pre_note,       \* history: current_note and last_bpm when the pass began
    pre_bpm,
    sent,           \* history: the MIDI messages the pass has sent
    open,           \* history: the notes switched on and not yet off
    emitted_bpm,    \* history: the bpm_value of the latest note_on
    cc_i,           \* prerecorded script: index of the peak being played
    last_cc113,     \* prerecorded script
    cc_value,       \* prerecorded script
    target_cc,      \* prerecorded script
    cc_start,       \* history: cc_value when the glide loop was entered
    g_start,        \* history: current_note before the first glide update
    g_steps,        \* history: the glide updates made toward target_note
    g_reached,      \* history: current_note has been target_note
    args,           \* the arguments of a function applied on its own
    result          \* and what it returned

mapping == <<current_note, last_bpm>>

locals == <<n_peaks, rr_intervals, bpm_value, min_bpm, max_bpm, target_note,
            velocity, note_to_play>>

history == <<pre_note, pre_bpm, sent, open, emitted_bpm>>

ccvars == <<cc_i, last_cc113, cc_value, target_cc, cc_start>>

glidevars == <<g_start, g_steps, g_reached>>

pure == <<args, result>>

vars == <<variant, pc, error, mapping, locals, history, ccvars, glidevars, pure>>

\* The values of the variables a script does not have.
NoLive ==
    /\ current_note = None
    /\ last_bpm = None
    /\ target_note = None
    /\ velocity = None
    /\ note_to_play = None
    /\ pre_note = None
    /\ pre_bpm = None
    /\ open = <<>>
    /\ emitted_bpm = None

NoPass ==
    /\ n_peaks = None
    /\ rr_intervals = <<>>
    /\ bpm_value = None
    /\ min_bpm = None
    /\ max_bpm = None
    /\ sent = <<>>

NoCC ==
    /\ cc_i = None
    /\ last_cc113 = None
    /\ cc_value = None
    /\ target_cc = None
    /\ cc_start = None

NoGlide ==
    /\ g_start = None
    /\ g_steps = None
    /\ g_reached = FALSE

NoPure ==
    /\ args = None
    /\ result = None

(***************************************************************************)
(* The live loops: bridge_live_test3.py and bridge_live_test2.py           *)
(*                                                                         *)
(* pc: "pull"      blocked in inlet.pull_sample()                          *)
(*     "detected"  find_peaks has returned                                 *)
(*     "hold"      note_on sent, in time.sleep() before note_off           *)
(*     "end"       the pass is over, before the next turn of while True    *)
(*     "stopped"   left the loop through except KeyboardInterrupt          *)
(*     "crashed"   ended by an exception nothing catches                   *)
(***************************************************************************)
\* "test" is bridge_live_test.py: the loop of test2, line for line, fed by
\* ser.readline() instead of inlet.pull_sample().
LiveVariants == {"test3", "test2", "test"}

\* Mutant of EnoughPeaks: the guard off by one.
EnoughPeaksOffByOne(v, n) == IF v = "test3" THEN n >= 1 ELSE n > 0

\* len(r_peaks) >= 2 (test3), len(peak_times) > 1 (test2)
EnoughPeaks(v, n) == IF v = "test3" THEN n >= 2 ELSE n > 1

\* moving_median(rr_intervals) (test3), medfilt(rr_intervals, kernel_size=3)
\* (test2)
SmoothedRR(v, rr) == IF v = "test3" THEN moving_median(rr) ELSE medfilt(rr)

\* smoothed_bpm = 60 / smoothed_rr (test3), bpm_values = 60 / rr_filtered
\* (test2)
BpmValues(v, rr) ==
    LET sm == SmoothedRR(v, rr)
    IN  SubSeq([i \in 1..Len(sm) |-> Bpm(sm[i])], 1, Len(sm))

\* smoothed_bpm[-1] (test3); np.median(bpm_values[-3:]) when there are at
\* least 3 values and bpm_values[-1] otherwise (test2)
CurrentBpm(v, bv) ==
    LET n == Len(bv)
    IN  IF v # "test3" /\ n >= 3
        THEN RMedian3(bv[n - 2], bv[n - 1], bv[n])
        ELSE bv[n]

OutOfBand(bpm) == RLt(bpm, RInt(band_low)) \/ RLt(RInt(band_high), bpm)

\* if bpm_value < 30 or bpm_value > 200: continue.  Only test2 has it.
SanityFilter(v, bpm) == v # "test3" /\ OutOfBand(bpm)

\* np.min(smoothed_bpm) (test3), max(40, np.min(bpm_values)) (test2)
RangeMin(v, bv) ==
    IF v = "test3" THEN SeqMin(bv) ELSE RMax(RInt(range_floor), SeqMin(bv))

\* np.max(smoothed_bpm) (test3), min(180, np.max(bpm_values)) (test2)
RangeMax(v, bv) ==
    IF v = "test3" THEN SeqMax(bv) ELSE RMin(RInt(range_ceiling), SeqMax(bv))

\* Mutant of GateOpen: the threshold comparison left out.
GateOpenAlways(last, bpm, threshold) == TRUE

\* last_bpm is None or abs(bpm_value - last_bpm) >= bpm_change_threshold
GateOpen(last, bpm, threshold) ==
    last = None \/ RLe(threshold, RAbs(RSub(bpm, last)))

\* Mutant of AfterInterrupt: the handler inside while True without break.
AfterInterruptContinue(v) == "pull"

\* Where except KeyboardInterrupt leaves the script: test2 breaks out of
\* while True, test3's try encloses the whole loop.
AfterInterrupt(v) == "stopped"

NoteOn(note, vel) == [type |-> "note_on", note |-> note, velocity |-> vel]

NoteOff(note) == [type |-> "note_off", note |-> note, velocity |-> 0]

\* s without its first element equal to x.
RECURSIVE RemoveFirst(_, _)
RemoveFirst(s, x) ==
    IF s = <<>> THEN <<>>
    ELSE IF s[1] = x THEN Tail(s)
    ELSE <<s[1]>> \o RemoveFirst(Tail(s), x)

InitLive ==
    /\ variant \in LiveVariants
    /\ pc = "pull"
    /\ error = "none"
    /\ NoLive
    /\ NoPass
    /\ NoCC
    /\ NoGlide
    /\ NoPure

\* A turn of while True that pulls a sample and runs no detection: the
\* sample is empty, sample_count is no multiple of int(fs / 4) (test2), or
\* the buffer is not yet longer than buffer_size (test3).
PullSample ==
    /\ pc = "pull"
    /\ UNCHANGED vars

\* A turn that pulls a sample and runs find_peaks on the buffer.  The peaks
\* are the buffer's, so their distances sum to less than buffer_size.
Detect ==
    /\ pc = "pull"
    /\ \E n \in 0..MaxPeaks : \E rr \in RRSeqs(n) :
        /\ Sum(rr) < buffer_size(variant)
        /\ n_peaks' = Some(n)
        /\ rr_intervals' = rr
    /\ pc' = "detected"
    /\ pre_note' = current_note
    /\ pre_bpm' = last_bpm
    /\ UNCHANGED <<variant, error, mapping, bpm_value, min_bpm, max_bpm,
                   target_note, velocity, note_to_play, sent, open, emitted_bpm>>
    /\ UNCHANGED <<ccvars, glidevars, pure>>

\* The pass from the peak-count guard to the blocking time.sleep().
\* rr_intervals is not read after the estimate, and the model drops it.
Process ==
    /\ pc = "detected"
    /\ IF ~EnoughPeaks(variant, Val(n_peaks))
       THEN \* the guard fails: nothing else runs in this turn
            /\ pc' = "end"
            /\ UNCHANGED <<error, mapping, bpm_value, min_bpm, max_bpm,
                           target_note, velocity, note_to_play, sent, open,
                           emitted_bpm>>
       ELSE IF rr_intervals = <<>>
       THEN \* np.pad(mode='edge') of an empty array raises ValueError and
            \* bpm_values[-1] of an empty array IndexError
            /\ pc' = "crashed"
            /\ error' = IF variant = "test3" THEN "ValueError" ELSE "IndexError"
            /\ UNCHANGED <<mapping, bpm_value, min_bpm, max_bpm, target_note,
                           velocity, note_to_play, sent, open, emitted_bpm>>
       ELSE
       \E bv \in {BpmValues(variant, rr_intervals)} :
       \E bpm \in {CurrentBpm(variant, bv)} :
       \E lo \in {RangeMin(variant, bv)} :
       \E hi \in {RangeMax(variant, bv)} :
       \E target \in {bpm_to_note_quantized(bpm, lo, hi)} :
       \E vel \in {bpm_to_velocity(bpm, lo, hi)} :
       LET cur == IF current_note = None THEN Val(target) ELSE Val(current_note)
           play == cur + GlideStep(Val(target) - cur)
       IN  /\ bpm_value' = bpm
           /\ IF SanityFilter(variant, bpm)
              THEN \* continue
                   /\ pc' = "end"
                   /\ UNCHANGED <<error, mapping, min_bpm, max_bpm, target_note,
                                  velocity, note_to_play, sent, open, emitted_bpm>>
              ELSE
              /\ min_bpm' = lo
              /\ max_bpm' = hi
              /\ IF ~GateOpen(last_bpm, bpm, bpm_change_threshold(variant))
                 THEN /\ pc' = "end"
                      /\ UNCHANGED <<error, mapping, target_note, velocity,
                                     note_to_play, sent, open, emitted_bpm>>
                 ELSE IF target = Raised \/ vel = Raised
                 THEN \* ValueError leaves the loop: only KeyboardInterrupt
                      \* is caught
                      /\ pc' = "crashed"
                      /\ error' = "ValueError"
                      /\ UNCHANGED <<mapping, target_note, velocity,
                                     note_to_play, sent, open, emitted_bpm>>
                 ELSE /\ target_note' = target
                      /\ velocity' = vel
                      /\ note_to_play' = Some(play)
                      /\ current_note' = Some(play)
                      /\ sent' = Append(sent, NoteOn(play, Val(vel)))
                      /\ open' = Append(open, play)
                      /\ emitted_bpm' = bpm
                      /\ pc' = "hold"
                      /\ UNCHANGED <<error, last_bpm>>
    /\ rr_intervals' = <<>>
    /\ UNCHANGED <<variant, n_peaks, pre_note, pre_bpm>>
    /\ UNCHANGED <<ccvars, glidevars, pure>>

\* time.sleep() returns: note_off for the note switched on, then
\* last_bpm = bpm_value.
SendNoteOff ==
    /\ pc = "hold"
    /\ sent' = Append(sent, NoteOff(Val(note_to_play)))
    /\ open' = RemoveFirst(open, Val(note_to_play))
    /\ last_bpm' = bpm_value
    /\ pc' = "end"
    /\ UNCHANGED <<variant, error, current_note, locals, pre_note, pre_bpm,
                   emitted_bpm>>
    /\ UNCHANGED <<ccvars, glidevars, pure>>

\* Back to the head of while True.  The values the pass computed are dead
\* there (each is assigned again before it is read), and the model drops
\* them.
LoopBack ==
    /\ pc = "end"
    /\ pc' = "pull"
    /\ n_peaks' = None
    /\ rr_intervals' = <<>>
    /\ bpm_value' = None
    /\ min_bpm' = None
    /\ max_bpm' = None
    /\ target_note' = None
    /\ velocity' = None
    /\ note_to_play' = None
    /\ pre_note' = None
    /\ pre_bpm' = None
    /\ sent' = <<>>
    /\ UNCHANGED <<variant, error, mapping, open, emitted_bpm>>
    /\ UNCHANGED <<ccvars, glidevars, pure>>

\* Ctrl+C while the script blocks: in pull_sample() or in time.sleep().
\* The handler prints a line and the loop is left; nothing is sent.  The
\* values of the pass under way are dropped as in LoopBack.
Interrupt ==
    /\ pc \in {"pull", "hold"}
    /\ pc' = AfterInterrupt(variant)
    /\ n_peaks' = None
    /\ rr_intervals' = <<>>
    /\ bpm_value' = None
    /\ min_bpm' = None
    /\ max_bpm' = None
    /\ target_note' = None
    /\ velocity' = None
    /\ note_to_play' = None
    /\ pre_note' = None
    /\ pre_bpm' = None
    /\ sent' = <<>>
    /\ UNCHANGED <<variant, error, mapping, open, emitted_bpm>>
    /\ UNCHANGED <<ccvars, glidevars, pure>>

Next ==
    \/ PullSample
    \/ Detect
    \/ Process
    \/ SendNoteOff
    \/ LoopBack
    \/ Interrupt

Spec == InitLive /\ [][Next]_vars

(***************************************************************************)
(* Claims about the live loops                                             *)
(***************************************************************************)
\* A pass is under way or just over: Detect has set n_peaks and neither
\* LoopBack nor Interrupt has dropped it.
InPass == n_peaks # None

MappingUnchanged == current_note = pre_note /\ last_bpm = pre_bpm

\* C1: at most one note is open at any time, and the messages of one pass
\* are nothing, a note_on, or a note_on followed by the note_off of the same
\* note number: no note_on is sent while a note is open and the events of
\* two beats never interleave.
C1_OneNoteOpen ==
    /\ Len(open) <= 1
    /\ Len(sent) <= 2
    /\ Len(sent) >= 1 => sent[1].type = "note_on"
    /\ Len(sent) = 2 => /\ sent[2].type = "note_off"
                        /\ sent[2].note = sent[1].note
    /\ open # <<>> => Len(sent) <= 1
    /\ pc = "hold" => open = <<sent[1].note>>

\* C1 witness: a later pass holds its note while no other note is open.
C1_Witness ==
    /\ pc = "hold"
    /\ last_bpm # None
    /\ Len(open) = 1
    /\ Len(sent) = 1

\* C2: no execution stops on KeyboardInterrupt with a note_on that has no
\* matching note_off.
C2_InterruptClosesNote == pc = "stopped" => open = <<>>

\* C3: after a pass with fewer than 2 peaks no MIDI message has been sent,
\* current_note and last_bpm are what they were before the pass, and the
\* pass ended without an exception.
C3_FewPeaksNoEffect ==
    (InPass /\ pc # "detected" /\ Val(n_peaks) < 2) =>
        /\ sent = <<>>
        /\ MappingUnchanged
        /\ error = "none"
        /\ pc = "end"

\* C3 witness: a pass with one peak is over and the mapping state set by
\* an earlier pass is still there.
C3_Witness ==
    /\ pc = "end"
    /\ n_peaks = Some(1)
    /\ current_note # None
    /\ last_bpm # None

\* The estimate of the pass is closer to last_bpm than the threshold.
BelowThreshold ==
    /\ InPass
    /\ pc # "detected"
    /\ bpm_value # None
    /\ pre_bpm # None
    /\ RLt(RAbs(RSub(bpm_value, pre_bpm)), bpm_change_threshold(variant))

\* C4: a pass whose estimate is within the threshold of last_bpm sends
\* nothing and leaves current_note and last_bpm alone; last_bpm changes only
\* in a pass that sent its note_on and note_off, to that pass's bpm_value;
\* and whenever no note is open last_bpm is the bpm_value of the latest
\* note_on.
C4_UpdateGate ==
    /\ BelowThreshold => (sent = <<>> /\ MappingUnchanged)
    /\ (InPass /\ last_bpm # pre_bpm) => (Len(sent) = 2 /\ last_bpm = bpm_value)
    /\ open = <<>> => last_bpm = emitted_bpm

\* C4 witness: a pass whose estimate differs from last_bpm by less than the
\* threshold is over.
C4_Witness ==
    /\ BelowThreshold
    /\ bpm_value # pre_bpm
    /\ pc = "end"

\* C5: in every live variant a pass whose estimate is below 30 or above 200
\* BPM sends nothing and leaves current_note and last_bpm alone.
C5_BandDiscards ==
    (InPass /\ bpm_value # None /\ OutOfBand(bpm_value)) =>
        (sent = <<>> /\ MappingUnchanged)

\* C11: in the adaptive-threshold loops a pass that got past the sanity
\* filter hands the mappers a range with min_bpm <= max_bpm, where
\* min_bpm = max(40, min(bpm_values)) and max_bpm = min(180, max(bpm_values)).
C11_RangeOrdered ==
    (variant \in {"test2", "test"} /\ InPass /\ min_bpm # None) =>
        RLe(min_bpm, max_bpm)

(***************************************************************************)
(* The discrete glide on its own: the update of the live loops (test3      *)
(* lines 119-128, test2 lines 129-137) repeated with target_note held      *)
(* fixed, from every current_note and target_note of the note range.       *)
(***************************************************************************)
InitGlide ==
    /\ variant = "glide"
    /\ pc = "glide"
    /\ error = "none"
    /\ \E c \in min_note..max_note : \E t \in min_note..max_note :
        /\ current_note = Some(c)
        /\ target_note = Some(t)
        /\ g_start = Some(c)
        /\ g_reached = (c = t)
    /\ g_steps = Some(0)
    /\ last_bpm = None
    /\ velocity = None
    /\ note_to_play = None
    /\ pre_note = None
    /\ pre_bpm = None
    /\ open = <<>>
    /\ emitted_bpm = None
    /\ NoPass
    /\ NoCC
    /\ NoPure

\* note_distance = target_note - current_note; glide_step; note_to_play =
\* current_note + glide_step; current_note = note_to_play.
GlideUpdate ==
    /\ pc = "glide"
    /\ Val(g_steps) < Abs(Val(target_note) - Val(g_start)) + 1 + MaxExtraUpdates
    /\ LET note_distance == Val(target_note) - Val(current_note)
           play == Val(current_note) + GlideStep(note_distance)
       IN  /\ note_to_play' = Some(play)
           /\ current_note' = Some(play)
           /\ g_reached' = (g_reached \/ play = Val(target_note))
    /\ g_steps' = Some(Val(g_steps) + 1)
    /\ UNCHANGED <<variant, pc, error, last_bpm, n_peaks, rr_intervals,
                   bpm_value, min_bpm, max_bpm, target_note, velocity,
                   history, ccvars, g_start, pure>>

NextGlide == GlideUpdate

SpecGlide == InitGlide /\ [][NextGlide]_vars

\* C7: with the target held fixed, current_note never passes target_note,
\* equals it after |distance| + 1 updates at the latest, and keeps equalling
\* it once it has.
C7_GlideConverges ==
    variant = "glide" =>
        LET c == Val(current_note)
            t == Val(target_note)
            s0 == Val(g_start)
        IN  /\ Min2(s0, t) <= c /\ c <= Max2(s0, t)
            /\ Val(g_steps) >= Abs(t - s0) + 1 => c = t
            /\ g_reached => c = t

\* C7 witness: a glide over more than 2 notes has arrived in more than one
\* update, the last of them a forced step, and has been updated again.
C7_Witness ==
    /\ variant = "glide"
    /\ Abs(Val(target_note) - Val(g_start)) > 2
    /\ current_note = target_note
    /\ note_to_play = target_note
    /\ Val(g_steps) = Abs(Val(target_note) - Val(g_start)) + 1

(***************************************************************************)
(* The prerecorded script: bridge_prerecorded_modulation.py                *)
(*                                                                         *)
(* pc: "load"      before the CSV is read                                  *)
(*     "peak"      at the head of for i, peak_time in enumerate(...)       *)
(*     "glide"     at the test of while cc_value != target_cc              *)
(*     "wait"      the while loop is left, in time.sleep(rr_interval)      *)
(*     "finished"  the for loop is over                                    *)
(*     "crashed"   ended by an exception                                   *)
(***************************************************************************)
ControlChange(value) ==
    [type |-> "control_change", control |-> 113, value |-> value, channel |-> 0]

InitCC ==
    /\ variant = "prerecorded"
    /\ pc = "load"
    /\ error = "none"
    /\ NoLive
    /\ NoPass
    /\ NoCC
    /\ NoGlide
    /\ NoPure

\* Sections 2 to 6 up to the for loop: the peaks of the recording, the
\* ValueError for fewer than 2 of them, the smoothed BPM sequence and its
\* range, last_cc113 = 0.  rr_intervals keeps smoothed_rr.
LoadCSV ==
    /\ pc = "load"
    /\ \E n \in 0..MaxPeaks : \E rr \in RRSeqs(n) :
        /\ n_peaks' = Some(n)
        /\ IF n < 2
           THEN /\ pc' = "crashed"
                /\ error' = "ValueError"
                /\ UNCHANGED <<rr_intervals, min_bpm, max_bpm, cc_i, last_cc113>>
           ELSE \E smoothed_rr \in {moving_median(rr)} :
                \E smoothed_bpm \in {[i \in 1..Len(rr) |-> Bpm(smoothed_rr[i])]} :
                /\ rr_intervals' = smoothed_rr
                /\ min_bpm' = SeqMin(smoothed_bpm)
                /\ max_bpm' = SeqMax(smoothed_bpm)
                /\ cc_i' = Some(0)
                /\ last_cc113' = Some(0)
                /\ pc' = "peak"
                /\ UNCHANGED error
    /\ UNCHANGED <<variant, mapping, bpm_value, target_note, velocity,
                   note_to_play, history, cc_value, target_cc, cc_start,
                   glidevars, pure>>

\* The body of the for loop down to the while loop.  Every peak find_peaks
\* returned has height >= 0.8, so the skip branch of line 82 is never taken.
\* bpm_value = smoothed_bpm[i] if i < len(smoothed_rr) else smoothed_bpm[-1]
NextPeak ==
    /\ pc = "peak"
    /\ LET n == Len(rr_intervals)
           i == Val(cc_i)
           bpm == IF i < n THEN Bpm(rr_intervals[i + 1]) ELSE Bpm(rr_intervals[n])
           target == bpm_to_cc113(bpm, min_bpm, max_bpm)
       IN  /\ bpm_value' = bpm
           /\ IF target = Raised
              THEN /\ pc' = "crashed"
                   /\ error' = "ValueError"
                   /\ UNCHANGED <<target_cc, cc_value, cc_start>>
              ELSE /\ target_cc' = target
                   /\ cc_value' = last_cc113
                   /\ cc_start' = last_cc113
                   /\ pc' = "glide"
                   /\ UNCHANGED error
    /\ sent' = <<>>
    /\ UNCHANGED <<variant, mapping, n_peaks, rr_intervals, min_bpm, max_bpm,
                   target_note, velocity, note_to_play, pre_note, pre_bpm,
                   open, emitted_bpm, cc_i, last_cc113, glidevars, pure>>

\* One turn of while cc_value != target_cc: step, send, last_cc113.
GlideTick ==
    /\ pc = "glide"
    /\ cc_value # target_cc
    /\ \E v \in {CCStep(Val(target_cc), Val(cc_value))} :
        /\ cc_value' = Some(v)
        /\ sent' = Append(sent, ControlChange(v))
        /\ last_cc113' = Some(v)
    /\ UNCHANGED <<variant, pc, error, mapping, n_peaks, rr_intervals,
                   bpm_value, min_bpm, max_bpm, target_note, velocity,
                   note_to_play, pre_note, pre_bpm, open, emitted_bpm,
                   cc_i, target_cc, cc_start, glidevars, pure>>

\* The while test fails: on to time.sleep(rr_interval).
GlideDone ==
    /\ pc = "glide"
    /\ cc_value = target_cc
    /\ pc' = "wait"
    /\ UNCHANGED <<variant, error, mapping, locals, history, ccvars,
                   glidevars, pure>>

\* time.sleep(rr_interval) returns: the next peak, or the end of the loop.
Wait ==
    /\ pc = "wait"
    /\ cc_i' = Some(Val(cc_i) + 1)
    /\ pc' = IF Val(cc_i) + 1 < Val(n_peaks) THEN "peak" ELSE "finished"
    /\ UNCHANGED <<variant, error, mapping, locals, history, last_cc113,
                   cc_value, target_cc, cc_start, glidevars, pure>>

NextCC ==
    \/ LoadCSV
    \/ NextPeak
    \/ GlideTick
    \/ GlideDone
    \/ Wait

SpecCC == InitCC /\ [][NextCC]_vars

\* |target_cc - v|
CCDistance(v) == Abs(Val(target_cc) - v)

\* C8: in the glide loop of a peak every control_change value is strictly
\* closer to target_cc than the one before it (the first than the starting
\* last_cc113), lies between the starting value and target_cc and so in
\* 0..127, and last_cc113 follows it; the loop is left after at most
\* |target_cc - start| turns, with cc_value = last_cc113 = target_cc.
C8_ContinuousGlide ==
    pc \in {"glide", "wait"} =>
        /\ \A k \in 1..Len(sent) :
            /\ sent[k].type = "control_change"
            /\ CCDistance(sent[k].value) <
                   CCDistance(IF k = 1 THEN Val(cc_start) ELSE sent[k - 1].value)
            /\ Min2(Val(cc_start), Val(target_cc)) <= sent[k].value
            /\ sent[k].value <= Max2(Val(cc_start), Val(target_cc))
            /\ sent[k].value \in min_cc113..max_cc113
        /\ sent # <<>> => (cc_value = Some(sent[Len(sent)].value) /\ last_cc113 = cc_value)
        /\ Len(sent) <= CCDistance(Val(cc_start))
        /\ pc = "wait" => (cc_value = target_cc /\ last_cc113 = target_cc)

\* C8 witness: a glide loop is left after a ramp down from a value that
\* an earlier peak's ramp up had reached.
C8_Witness ==
    /\ pc = "wait"
    /\ Val(cc_start) > Val(target_cc) + 10
    /\ Len(sent) > 2
    /\ last_cc113 = target_cc

(***************************************************************************)
(* The mappers and the median filters on their own, applied to arguments   *)
(* drawn from the values the scripts hand them.                            *)
(***************************************************************************)
\* BPM arguments: the BPM of every RR choice, and whole BPM values below,
\* at, between and above the floor and ceiling of the range.
BpmInputs ==
    {Bpm(r) : r \in RRChoices} \cup
    {RInt(b) : b \in {20, range_floor, 90, range_ceiling, 220}}

\* The RR sequences a filter is handed: np.diff of 2 to MaxPeaks peaks.
FilterInputs == UNION {RRSeqs(n) : n \in 2..MaxPeaks}

InitPure ==
    /\ variant = "pure"
    /\ error = "none"
    /\ \/ /\ pc = "mapper"
          /\ args \in [bpm : BpmInputs, bpm2 : BpmInputs,
                        min_bpm : BpmInputs, max_bpm : BpmInputs]
       \/ /\ pc = "filter"
          /\ args \in [filter : {"moving_median", "medfilt"}, data : FilterInputs]
    /\ result = None
    /\ NoLive
    /\ NoPass
    /\ NoCC
    /\ NoGlide

\* The three mappers on args.bpm, and bpm_to_note_quantized on args.bpm2
\* and on the two ends of the range as well.
ApplyMappers ==
    /\ pc = "mapper"
    /\ pc' = "mapped"
    /\ result' =
         [note     |-> bpm_to_note_quantized(args.bpm, args.min_bpm, args.max_bpm),
          note2    |-> bpm_to_note_quantized(args.bpm2, args.min_bpm, args.max_bpm),
          note_min |-> bpm_to_note_quantized(args.min_bpm, args.min_bpm, args.max_bpm),
          note_max |-> bpm_to_note_quantized(args.max_bpm, args.min_bpm, args.max_bpm),
          velocity |-> bpm_to_velocity(args.bpm, args.min_bpm, args.max_bpm),
          cc113    |-> bpm_to_cc113(args.bpm, args.min_bpm, args.max_bpm)]
    /\ UNCHANGED <<variant, error, mapping, locals, history, ccvars,
                   glidevars, args>>

\* moving_median (test3, prerecorded) or medfilt (test2) on args.data.
ApplyFilter ==
    /\ pc = "filter"
    /\ pc' = "filtered"
    /\ result' = IF args.filter = "medfilt"
                 THEN medfilt(args.data)
                 ELSE moving_median(args.data)
    /\ UNCHANGED <<variant, error, mapping, locals, history, ccvars,
                   glidevars, args>>

NextPure ==
    \/ ApplyMappers
    \/ ApplyFilter

SpecPure == InitPure /\ [][NextPure]_vars

\* The middle of an output range, either neighbour when it is no integer.
Midpoints(lo_out, hi_out) ==
    {(lo_out + hi_out) \div 2, (lo_out + hi_out + 1) \div 2}

\* C6: for max_bpm = min_bpm each of bpm_to_note_quantized, bpm_to_velocity
\* and bpm_to_cc113 returns the midpoint of its output range and does not
\* raise.
C6_DegenerateMidpoint ==
    (pc = "mapped" /\ args.min_bpm = args.max_bpm) =>
        /\ result.note # Raised
        /\ result.velocity # Raised
        /\ result.cc113 # Raised
        /\ Val(result.note) \in Midpoints(min_note, max_note)
        /\ Val(result.velocity) \in Midpoints(min_velocity, max_velocity)
        /\ Val(result.cc113) \in Midpoints(min_cc113, max_cc113)

\* C9: for min_bpm < max_bpm bpm_to_note_quantized returns a note in
\* min_note..max_note, returns no smaller note for a larger BPM, and maps a
\* BPM at or beyond an end of the range to the note of that end.
C9_NoteInRangeMonotone ==
    (pc = "mapped" /\ RLt(args.min_bpm, args.max_bpm)) =>
        /\ result.note # Raised
        /\ result.note2 # Raised
        /\ Val(result.note) \in min_note..max_note
        /\ RLe(args.bpm, args.bpm2) => Val(result.note) <= Val(result.note2)
        /\ RLe(args.bpm, args.min_bpm) => result.note = result.note_min
        /\ RLe(args.max_bpm, args.bpm) => result.note = result.note_max

\* C9 witness: a BPM below the range, a BPM strictly inside it that maps
\* strictly between the two end notes.
C9_Witness ==
    /\ pc = "mapped"
    /\ RLt(args.bpm, args.min_bpm)
    /\ RLt(args.min_bpm, args.bpm2)
    /\ RLt(args.bpm2, args.max_bpm)
    /\ Val(result.note) < Val(result.note2)
    /\ Val(result.note2) < Val(result.note_max)

IsConstant(data) == \A k \in 1..Len(data) : data[k] = data[1]

\* C10: the window-3 median filter of every variant returns a constant
\* sequence of any length >= 1 unchanged.
C10_ConstantUnchanged ==
    (pc = "filtered" /\ IsConstant(args.data)) => result = args.data

=============================================================================
